---------------------------- MODULE Spec2Model ----------------------------
(***************************************************************************)
(* Model of k_graph.py: the phyllotaxis point-cloud generator              *)
(* (generate_sunflower_data), the POST /generate handler                   *)
(* (generate_phyllotaxis) and the preset lookup (get_preset).              *)
(*                                                                         *)
(* Numbers.  Python floats are modelled as exact rationals <<n, d>> in     *)
(* lowest terms with d > 0.  The values sqrt(1 - z^2) * radius are not     *)
(* rational in general; they are kept as "surds": a sign together with     *)
(* the (rational) square.  cos and sin are kept symbolic: a coordinate     *)
(* amp * cos(angle) is the record [fn, amp, angle]; the only property of   *)
(* cos and sin used by the properties is cos^2 + sin^2 = 1 for equal       *)
(* angles.  Point angles are counted in units of pi * (3 - sqrt(5)),       *)
(* camera angles in degrees.                                               *)
(***************************************************************************)
EXTENDS Integers, Sequences, FiniteSets, TLC

\* Largest num_points and animation_frames a request of the model carries.
MaxPoints == 5
MaxFrames == 4

-----------------------------------------------------------------------------
(* Rational arithmetic (Python float arithmetic, taken exactly) *)

Abs(n) == IF n < 0 THEN -n ELSE n

Sign(n) == IF n < 0 THEN -1 ELSE IF n = 0 THEN 0 ELSE 1

RECURSIVE GCD(_, _)
GCD(a, b) == IF b = 0 THEN a ELSE GCD(b, a % b)

Rat(n, d) ==
    LET g == GCD(Abs(n), Abs(d))
        s == IF d < 0 THEN -1 ELSE 1
    IN  <<(s * n) \div g, (s * d) \div g>>

RatInt(n) == <<n, 1>>
RatAdd(a, b) == Rat(a[1] * b[2] + b[1] * a[2], a[2] * b[2])
RatSub(a, b) == Rat(a[1] * b[2] - b[1] * a[2], a[2] * b[2])
RatMul(a, b) == Rat(a[1] * b[1], a[2] * b[2])
RatDiv(a, b) == Rat(a[1] * b[2], a[2] * b[1])
RatLt(a, b) == a[1] * b[2] < b[1] * a[2]
RatLe(a, b) == a[1] * b[2] <= b[1] * a[2]
RatAbs(a) == <<Abs(a[1]), a[2]>>
RatFloor(a) == a[1] \div a[2]
\* Python's float % for a positive modulus: a - m * floor(a / m)
RatMod(a, m) == RatSub(a, RatMul(m, RatInt(RatFloor(RatDiv(a, m)))))
\* Python's int(): truncation toward zero
PyInt(a) == IF a[1] >= 0 THEN a[1] \div a[2] ELSE -((-a[1]) \div a[2])

(* Surds: sgn * sqrt(sq), or NaN *)
NaN == [nan |-> TRUE, sgn |-> 0, sq |-> <<0, 1>>]
SurdOfRat(a) == [nan |-> FALSE, sgn |-> Sign(a[1]), sq |-> RatMul(a, a)]
\* np.sqrt: NaN (with a warning, no exception) on a negative argument
NpSqrt(a) == IF a[1] < 0 THEN NaN ELSE [nan |-> FALSE, sgn |-> Sign(a[1]), sq |-> a]
SurdMul(a, b) ==
    IF a.nan \/ b.nan THEN NaN
    ELSE [nan |-> FALSE, sgn |-> a.sgn * b.sgn, sq |-> RatMul(a.sq, b.sq)]

\* amp * np.cos(angle), amp * np.sin(angle)
Trig(fn, amp, angle) == [fn |-> fn, amp |-> amp, angle |-> angle]

One == <<1, 1>>

-----------------------------------------------------------------------------
(* Faulty variants of np.linspace, used to show that the properties below *)
(* depend on it: endpoint=False; stop instead of start for one sample;   *)
(* one sample too few                                                     *)
Linspace_NoEndpoint(start, stop, num) ==
    [j \in 1..num |->
        RatAdd(start, RatDiv(RatMul(RatInt(j - 1), RatSub(stop, start)),
                             RatInt(num)))]

Linspace_SingleStop(start, stop, num) ==
    [j \in 1..num |->
        IF num = 1 THEN stop
        ELSE RatAdd(start, RatDiv(RatMul(RatInt(j - 1), RatSub(stop, start)),
                                  RatInt(num - 1)))]

Linspace_Short(start, stop, num) ==
    [j \in 1..(num - 1) |->
        IF num = 1 THEN start
        ELSE RatAdd(start, RatDiv(RatMul(RatInt(j - 1), RatSub(stop, start)),
                                  RatInt(num - 1)))]

(* np.linspace(start, stop, num) for num >= 0 (endpoint=True) *)
Linspace(start, stop, num) ==
    [j \in 1..num |->
        IF num = 1 THEN start
        ELSE RatAdd(start, RatDiv(RatMul(RatInt(j - 1), RatSub(stop, start)),
                                  RatInt(num - 1)))]

-----------------------------------------------------------------------------
(* Request parameters *)

Schemes == {"blue_to_red", "rainbow", "green_to_purple"}
SchemeInputs == Schemes \cup {"sepia"}
RadiusInputs == {<<-1, 1>>, <<0, 1>>, <<1, 1>>, <<5, 2>>}
MultiplierInputs == {<<4, 5>>, <<1, 1>>, <<6, 5>>}

PhyllotaxisParams(n, m, r, f, c) ==
    [num_points |-> n, golden_angle_multiplier |-> m, radius |-> r,
     animation_frames |-> f, color_scheme |-> c]

DefaultParams == PhyllotaxisParams(1000, <<1, 1>>, <<10, 1>>, 100, "blue_to_red")

ParamInputs ==
    { PhyllotaxisParams(n, m, r, f, c) :
        n \in -1..MaxPoints, m \in MultiplierInputs, r \in RadiusInputs,
        f \in -1..MaxFrames, c \in SchemeInputs }

-----------------------------------------------------------------------------
(* Per-point computations of generate_sunflower_data *)

\* faulty variant: the band-centred height 1 - (2 * i + 1) / num_points
ZUnit_Centred(i, n) == RatSub(RatInt(1), Rat(2 * i + 1, n))

\* z = 1 - (2 * i) / params.num_points
ZUnit(i, n) == RatSub(RatInt(1), Rat(2 * i, n))

\* faulty variant: np.sqrt(1 - z), the square forgotten
RadiusAtZ_NoSquare(z) == NpSqrt(RatSub(RatInt(1), z))

\* radius_at_z = np.sqrt(1 - z**2)
RadiusAtZ(z) == NpSqrt(RatSub(RatInt(1), RatMul(z, z)))

\* angle = i * golden_angle, in units of pi * (3 - sqrt(5))
Angle(i, m) == RatMul(RatInt(i), m)

XVal(i, p) ==
    Trig("cos", SurdMul(RadiusAtZ(ZUnit(i, p.num_points)), SurdOfRat(p.radius)),
         Angle(i, p.golden_angle_multiplier))
YVal(i, p) ==
    Trig("sin", SurdMul(RadiusAtZ(ZUnit(i, p.num_points)), SurdOfRat(p.radius)),
         Angle(i, p.golden_angle_multiplier))
ZVal(i, p) == RatMul(ZUnit(i, p.num_points), p.radius)

BlueToRed(t) ==
    <<PyInt(RatMul(RatInt(255), t)),
      PyInt(RatMul(RatInt(100), RatSub(One, t))),
      PyInt(RatMul(RatInt(255), RatSub(One, t)))>>

\* 1 - abs((hue / 60) % 2 - 1)
Triangle(hue) ==
    RatSub(One, RatAbs(RatSub(RatMod(RatDiv(hue, RatInt(60)), RatInt(2)), One)))

Rainbow(t) ==
    LET hue == RatMul(t, RatInt(360))
    IN  <<PyInt(IF RatLt(hue, RatInt(120))
                THEN RatMul(RatInt(255), Triangle(hue))
                ELSE RatMul(RatInt(255), RatSub(One, t))),
          PyInt(IF RatLt(hue, RatInt(120))
                THEN RatMul(RatInt(255), t)
                ELSE RatMul(RatInt(255), Triangle(hue))),
          PyInt(IF RatLt(hue, RatInt(240))
                THEN RatMul(RatInt(255), RatSub(One, t))
                ELSE RatMul(RatInt(255), t))>>

\* faulty variant: 128 + 128 * t for the red and blue channels
GreenToPurple_Overshoot(t) ==
    <<PyInt(RatAdd(RatInt(128), RatMul(RatInt(128), t))),
      PyInt(RatMul(RatInt(255), RatSub(One, t))),
      PyInt(RatAdd(RatInt(128), RatMul(RatInt(128), t)))>>

GreenToPurple(t) ==
    <<PyInt(RatAdd(RatInt(128), RatMul(RatInt(127), t))),
      PyInt(RatMul(RatInt(255), RatSub(One, t))),
      PyInt(RatAdd(RatInt(128), RatMul(RatInt(127), t)))>>

\* r, g, b of the if/elif chain; only called for a scheme of Schemes
Channels(scheme, t) ==
    IF scheme = "blue_to_red" THEN BlueToRed(t)
    ELSE IF scheme = "rainbow" THEN Rainbow(t)
    ELSE GreenToPurple(t)

\* f'rgba({r}, {g}, {b}, 0.9)': the three interpolated integers and the
\* literal alpha text
ColorString(rgb) == <<rgb[1], rgb[2], rgb[3], "0.9">>

\* camera_eye of one frame; angle in degrees
CameraEye(angle) ==
    [x |-> Trig("cos", SurdOfRat(<<3, 2>>), angle),
     y |-> Trig("sin", SurdOfRat(<<3, 2>>), angle),
     z |-> 1]

-----------------------------------------------------------------------------
(* Presets of get_preset *)

PresetNames == {"classic", "dense", "spiral", "tight"}
PresetInputs == PresetNames \cup {"unknown", ""}

\* faulty variant: spiral left with the default radius
Presets_SpiralDefaultRadius(name) ==
    IF name = "classic"
      THEN [DefaultParams EXCEPT !.num_points = 1000,
              !.golden_angle_multiplier = <<1, 1>>, !.radius = <<10, 1>>]
    ELSE IF name = "dense"
      THEN [DefaultParams EXCEPT !.num_points = 2000,
              !.golden_angle_multiplier = <<1, 1>>, !.radius = <<8, 1>>]
    ELSE IF name = "spiral"
      THEN [DefaultParams EXCEPT !.num_points = 1500,
              !.golden_angle_multiplier = <<6, 5>>]
    ELSE [DefaultParams EXCEPT !.num_points = 800,
              !.golden_angle_multiplier = <<4, 5>>, !.radius = <<6, 1>>]

Presets(name) ==
    IF name = "classic"
      THEN [DefaultParams EXCEPT !.num_points = 1000,
              !.golden_angle_multiplier = <<1, 1>>, !.radius = <<10, 1>>]
    ELSE IF name = "dense"
      THEN [DefaultParams EXCEPT !.num_points = 2000,
              !.golden_angle_multiplier = <<1, 1>>, !.radius = <<8, 1>>]
    ELSE IF name = "spiral"
      THEN [DefaultParams EXCEPT !.num_points = 1500,
              !.golden_angle_multiplier = <<6, 5>>, !.radius = <<12, 1>>]
    ELSE [DefaultParams EXCEPT !.num_points = 800,
              !.golden_angle_multiplier = <<4, 5>>, !.radius = <<6, 1>>]

-----------------------------------------------------------------------------
(* State *)

VARIABLES
    pc,               \* position of the request being served
    params,           \* the PhyllotaxisParams of the /generate request in
                      \* service or last served (the defaults otherwise)
    preset_name,      \* the path parameter of the /presets request last
                      \* served ("" otherwise)
    time_embeddings,  \* np.linspace(0, 1, num_points)
    x_vals, y_vals, z_vals, time_vals, color_vals,
    frame_angles,     \* np.linspace(0, 360, animation_frames)
    frames,
    exc,              \* the exception in flight, or "none"
    response          \* the last HTTP response

vars == <<pc, params, preset_name, time_embeddings, x_vals, y_vals, z_vals,
          time_vals, color_vals, frame_angles, frames, exc, response>>

locals == <<time_embeddings, x_vals, y_vals, z_vals, time_vals, color_vals,
            frame_angles, frames>>

NoData == [x_vals |-> <<>>, y_vals |-> <<>>, z_vals |-> <<>>,
           time_vals |-> <<>>, color_vals |-> <<>>, frames |-> <<>>]

DataKeys == {"x_vals", "y_vals", "z_vals", "time_vals", "color_vals", "frames"}

\* op: the endpoint; status: HTTP status (0: no response yet); keys: the
\* keys of the JSON body; data, preset: the body when it is a point cloud
\* or a parameter set; detail: the error text
NoResponse ==
    [op |-> "none", status |-> 0, keys |-> {}, data |-> NoData,
     preset |-> DefaultParams, detail |-> ""]

ClearLocals ==
    /\ time_embeddings' = <<>>
    /\ x_vals' = <<>>
    /\ y_vals' = <<>>
    /\ z_vals' = <<>>
    /\ time_vals' = <<>>
    /\ color_vals' = <<>>
    /\ frame_angles' = <<>>
    /\ frames' = <<>>

Init ==
    /\ pc = "idle"
    /\ params = DefaultParams
    /\ preset_name = ""
    /\ time_embeddings = <<>>
    /\ x_vals = <<>>
    /\ y_vals = <<>>
    /\ z_vals = <<>>
    /\ time_vals = <<>>
    /\ color_vals = <<>>
    /\ frame_angles = <<>>
    /\ frames = <<>>
    /\ exc = "none"
    /\ response = NoResponse

-----------------------------------------------------------------------------
(* POST /generate *)

\* The request arrives; pydantic checks the field types only.
PostGenerate ==
    /\ pc = "idle"
    /\ \E p \in ParamInputs : params' = p
    /\ pc' = "start"
    /\ exc' = "none"
    /\ response' = NoResponse
    /\ preset_name' = ""
    /\ UNCHANGED locals

\* Lines 29-31: np.linspace raises ValueError on a negative sample count.
TimeLinspace ==
    /\ pc = "start"
    /\ IF params.num_points < 0
         THEN /\ exc' = "ValueError"
              /\ pc' = "except"
              /\ UNCHANGED time_embeddings
         ELSE /\ time_embeddings' = Linspace(<<0, 1>>, <<1, 1>>, params.num_points)
              /\ pc' = "points"
              /\ UNCHANGED exc
    /\ UNCHANGED <<params, preset_name, x_vals, y_vals, z_vals, time_vals,
                   color_vals, frame_angles, frames, response>>

\* Lines 33-59: one iteration of the point loop.  With a color_scheme that
\* matches no branch, r is unbound at line 54.
PointStep ==
    /\ pc = "points"
    /\ Len(time_vals) < Len(time_embeddings)
    /\ LET i == Len(time_vals)
           t == time_embeddings[i + 1]
       IN  IF params.color_scheme \notin Schemes
             THEN /\ exc' = "UnboundLocalError"
                  /\ pc' = "except"
                  /\ UNCHANGED <<x_vals, y_vals, z_vals, time_vals, color_vals>>
             ELSE /\ x_vals' = Append(x_vals, XVal(i, params))
                  /\ y_vals' = Append(y_vals, YVal(i, params))
                  /\ z_vals' = Append(z_vals, ZVal(i, params))
                  /\ time_vals' = Append(time_vals, t)
                  /\ color_vals' = Append(color_vals,
                                      ColorString(Channels(params.color_scheme, t)))
                  /\ UNCHANGED <<pc, exc>>
    /\ UNCHANGED <<params, preset_name, time_embeddings, frame_angles, frames,
                   response>>

\* Lines 61-62: the point loop is over; the frame angles are computed.
FrameLinspace ==
    /\ pc = "points"
    /\ Len(time_vals) = Len(time_embeddings)
    /\ IF params.animation_frames < 0
         THEN /\ exc' = "ValueError"
              /\ pc' = "except"
              /\ UNCHANGED frame_angles
         ELSE /\ frame_angles' = Linspace(<<0, 1>>, <<360, 1>>, params.animation_frames)
              /\ pc' = "frames"
              /\ UNCHANGED exc
    /\ UNCHANGED <<params, preset_name, time_embeddings, x_vals, y_vals, z_vals,
                   time_vals, color_vals, frames, response>>

\* Lines 62-68: one iteration of the frame loop.
FrameStep ==
    /\ pc = "frames"
    /\ Len(frames) < Len(frame_angles)
    /\ frames' = Append(frames, CameraEye(frame_angles[Len(frames) + 1]))
    /\ UNCHANGED <<pc, params, preset_name, time_embeddings, x_vals, y_vals,
                   z_vals, time_vals, color_vals, frame_angles, exc, response>>

\* Lines 70-77 and 133: the dict is returned and sent as the response.
ReturnData ==
    /\ pc = "frames"
    /\ Len(frames) = Len(frame_angles)
    /\ response' = [op |-> "generate", status |-> 200, keys |-> DataKeys,
                    data |-> [x_vals |-> x_vals, y_vals |-> y_vals,
                              z_vals |-> z_vals, time_vals |-> time_vals,
                              color_vals |-> color_vals, frames |-> frames],
                    preset |-> DefaultParams, detail |-> ""]
    /\ pc' = "idle"
    /\ ClearLocals
    /\ UNCHANGED <<params, preset_name, exc>>

\* faulty variant of the handler: the arrays built so far are sent along
\* with the error
HandleException_Partial ==
    /\ pc = "except"
    /\ response' = [op |-> "generate", status |-> 500,
                    keys |-> DataKeys \cup {"detail"},
                    data |-> [x_vals |-> x_vals, y_vals |-> y_vals,
                              z_vals |-> z_vals, time_vals |-> time_vals,
                              color_vals |-> color_vals, frames |-> frames],
                    preset |-> DefaultParams, detail |-> exc]
    /\ pc' = "idle"
    /\ exc' = "none"
    /\ ClearLocals
    /\ UNCHANGED <<params, preset_name>>

\* Lines 134-135: any exception becomes HTTPException(500, detail=str(e)).
HandleException ==
    /\ pc = "except"
    /\ response' = [op |-> "generate", status |-> 500, keys |-> {"detail"},
                    data |-> NoData, preset |-> DefaultParams, detail |-> exc]
    /\ pc' = "idle"
    /\ exc' = "none"
    /\ ClearLocals
    /\ UNCHANGED <<params, preset_name>>

-----------------------------------------------------------------------------
(* GET /presets/{preset_name} *)

GetPreset ==
    /\ pc = "idle"
    /\ \E name \in PresetInputs :
         /\ preset_name' = name
         /\ response' =
              IF name \notin PresetNames
                THEN [op |-> "get_preset", status |-> 404, keys |-> {"detail"},
                      data |-> NoData, preset |-> DefaultParams,
                      detail |-> "Preset not found"]
                ELSE [op |-> "get_preset", status |-> 200,
                      keys |-> {"num_points", "golden_angle_multiplier", "radius",
                                "animation_frames", "color_scheme"},
                      data |-> NoData, preset |-> Presets(name), detail |-> ""]
    /\ params' = DefaultParams
    /\ exc' = "none"
    /\ UNCHANGED <<pc, locals>>

Next ==
    \/ PostGenerate
    \/ TimeLinspace
    \/ PointStep
    \/ FrameLinspace
    \/ FrameStep
    \/ ReturnData
    \/ HandleException
    \/ GetPreset

Spec == Init /\ [][Next]_vars

TypeOK ==
    /\ pc \in {"idle", "start", "points", "frames", "except"}
    /\ params \in ParamInputs \cup {DefaultParams}
    /\ exc \in {"none", "ValueError", "UnboundLocalError"}
    /\ response.status \in {0, 200, 404, 500}

-----------------------------------------------------------------------------
(* Vocabulary of the properties *)

\* a /generate request has been answered with the data
GenOK == response.op = "generate" /\ response.status = 200

\* a /generate request has been answered
GenAnswered == response.op = "generate" /\ response.status # 0

\* the error kinds of the error-handling design, as HTTP responses: a
\* client-side parameter error, carrying none of the arrays
InvalidParameter(resp) ==
    /\ resp.status \in 400..499
    /\ resp.keys \cap DataKeys = {}

\* the eye is on the circle of squared radius rsq at height 1, at the angle
EyeAt(eye, angle, rsq) ==
    /\ eye.x.fn = "cos" /\ eye.y.fn = "sin"
    /\ eye.x.angle = angle /\ eye.y.angle = angle
    /\ ~eye.x.amp.nan /\ eye.x.amp = eye.y.amp
    /\ eye.x.amp.sq = rsq
    /\ eye.z = 1

\* x^2 + y^2 + z^2 = radius^2, x and y being amp*cos(a) and amp*sin(a)
OnSphere(x, y, z, radius) ==
    /\ x.fn = "cos" /\ y.fn = "sin"
    /\ x.angle = y.angle
    /\ ~x.amp.nan /\ x.amp = y.amp
    /\ RatAdd(x.amp.sq, RatMul(z, z)) = RatMul(radius, radius)

Channel(c) == c \in 0..255

ColorOK(color) ==
    /\ Channel(color[1]) /\ Channel(color[2]) /\ Channel(color[3])
    /\ color[4] = "0.9"

NonDecreasing(ts) ==
    \A j \in 1..(Len(ts) - 1) : RatLe(ts[j], ts[j + 1])

ValidParams(p) ==
    /\ p.num_points >= 1
    /\ RatLt(<<0, 1>>, p.radius)
    /\ RatLt(<<0, 1>>, p.golden_angle_multiplier)
    /\ p.animation_frames >= 1
    /\ p.color_scheme \in Schemes

IsExample3 ==
    /\ params.num_points = 3
    /\ params.golden_angle_multiplier = <<1, 1>>
    /\ params.radius = <<1, 1>>
    /\ params.color_scheme = "blue_to_red"

-----------------------------------------------------------------------------
(* C1 *)

\* C1 as stated: for point_count=3, angle_multiplier=1, radius=1,
\* blue_to_red the result has time_vals = [0, 0.5, 1], z_vals = [1, 0, -1],
\* first color rgba(0, 100, 255, 0.9) and last color rgba(255, 0, 0, 0.9).
C1_Stated ==
    (GenOK /\ IsExample3) =>
        /\ response.data.time_vals = << <<0, 1>>, <<1, 2>>, <<1, 1>> >>
        /\ response.data.z_vals = << <<1, 1>>, <<0, 1>>, <<-1, 1>> >>
        /\ response.data.color_vals[1] = <<0, 100, 255, "0.9">>
        /\ response.data.color_vals[3] = <<255, 0, 0, "0.9">>

\* C1 amended: for point_count=3, angle_multiplier=1, radius=1, blue_to_red
\* the result has time_vals = [0, 0.5, 1] and z_vals = [1, 1/3, -1/3] (the
\* first point is at z = +radius and the last at z = radius*(2/N - 1), above
\* -radius), first color rgba(0, 100, 255, 0.9) and last rgba(255, 0, 0, 0.9).
C1_Example3 ==
    (GenOK /\ IsExample3) =>
        /\ response.data.time_vals = << <<0, 1>>, <<1, 2>>, <<1, 1>> >>
        /\ response.data.z_vals = << <<1, 1>>, <<1, 3>>, <<-1, 3>> >>
        /\ response.data.color_vals[1] = <<0, 100, 255, "0.9">>
        /\ response.data.color_vals[3] = <<255, 0, 0, "0.9">>

C1_Witness == GenOK /\ IsExample3 /\ Len(response.data.z_vals) = 3

-----------------------------------------------------------------------------
(* C2 *)

\* C2 as stated: with frame_count=4 the eye angles are 0, 90, 180 and 270
\* degrees (frame k at k*360/frame_count), each frame with z = 1 and planar
\* radius 1.5.
C2_Stated ==
    (GenOK /\ params.animation_frames = 4) =>
        /\ Len(response.data.frames) = 4
        /\ \A k \in 1..4 :
             EyeAt(response.data.frames[k], Rat((k - 1) * 360, 4), <<9, 4>>)

\* C2 amended: with frame_count=4 the eye angles are 0, 120, 240 and 360
\* degrees (frame k at k*360/(frame_count-1), so the last frame is at the
\* full span and repeats the first frame's direction), each frame with
\* z = 1 and planar radius 1.5.
C2_CameraPath4 ==
    (GenOK /\ params.animation_frames = 4) =>
        /\ Len(response.data.frames) = 4
        /\ \A k \in 1..4 :
             EyeAt(response.data.frames[k], Rat((k - 1) * 360, 3), <<9, 4>>)

C2_Witness ==
    /\ GenOK /\ params.animation_frames = 4
    /\ Len(response.data.frames) = 4
    /\ response.data.frames[4].x.angle = <<360, 1>>

-----------------------------------------------------------------------------
(* C3 *)

\* C3: a /generate request whose color_scheme is not one of the three known
\* schemes is always answered with an InvalidParameter error, for every
\* point_count, and never with a point cloud.
C3_UnknownSchemeRejected ==
    (GenAnswered /\ params.color_scheme \notin Schemes) =>
        InvalidParameter(response)

-----------------------------------------------------------------------------
(* C4 *)

\* C4: a /generate request with point_count < 1 or radius <= 0 is answered
\* with an InvalidParameter error and no point or frame is computed for it.
C4_InvalidSizeRejected ==
    (params.num_points < 1 \/ RatLe(params.radius, <<0, 1>>)) =>
        /\ x_vals = <<>> /\ frames = <<>>
        /\ GenAnswered => InvalidParameter(response)

-----------------------------------------------------------------------------
(* C5 *)

\* C5: for point_count >= 1 and radius > 0 every generated point i (in the
\* loop and in the response) has unit height 1 - 2i/point_count within
\* [-1, 1], a defined square root, and x^2 + y^2 + z^2 = radius^2.
PointsOnSphere(xs, ys, zs) ==
    \A j \in 1..Len(zs) :
        LET zu == RatSub(<<1, 1>>, Rat(2 * (j - 1), params.num_points))
        IN  /\ zs[j] = RatMul(zu, params.radius)
            /\ RatLe(<<-1, 1>>, zu) /\ RatLe(zu, <<1, 1>>)
            /\ OnSphere(xs[j], ys[j], zs[j], params.radius)

C5_OnSphere ==
    (params.num_points >= 1 /\ RatLt(<<0, 1>>, params.radius)) =>
        /\ PointsOnSphere(x_vals, y_vals, z_vals)
        /\ PointsOnSphere(response.data.x_vals, response.data.y_vals,
                          response.data.z_vals)

C5_Witness ==
    /\ GenOK /\ params.num_points >= 4 /\ params.radius = <<5, 2>>
    /\ Len(response.data.x_vals) = params.num_points
    /\ response.data.x_vals[1].amp.sgn = 0
    /\ response.data.x_vals[2].amp.sgn = 1

-----------------------------------------------------------------------------
(* C6 *)

\* C6: for point_count >= 1 (the other parameters valid) the call succeeds
\* and the returned t-values are non-decreasing, start at 0, are
\* t_i = i/(point_count-1) ending at 1 when point_count >= 2, and are the
\* single value 0 when point_count = 1.
C6_TimeValues ==
    (GenAnswered /\ params.num_points >= 1 /\ params.animation_frames >= 0
       /\ params.color_scheme \in Schemes) =>
        LET ts == response.data.time_vals
            n  == params.num_points
        IN  /\ response.status = 200
            /\ Len(ts) = n
            /\ NonDecreasing(ts)
            /\ ts[1] = <<0, 1>>
            /\ n >= 2 => /\ ts[n] = <<1, 1>>
                         /\ \A j \in 1..n : ts[j] = Rat(j - 1, n - 1)
            /\ n = 1 => ts = << <<0, 1>> >>

C6_Witness ==
    /\ GenOK /\ params.num_points = 1
    /\ response.data.time_vals = << <<0, 1>> >>

-----------------------------------------------------------------------------
(* C7 *)

\* C7: every color written, under each of the three schemes, has integer R,
\* G and B channels in [0, 255] and the alpha text 0.9.
C7_ChannelsInRange ==
    /\ \A j \in 1..Len(color_vals) : ColorOK(color_vals[j])
    /\ \A j \in 1..Len(response.data.color_vals) :
         ColorOK(response.data.color_vals[j])

C7_Witness ==
    /\ GenOK /\ params.color_scheme = "rainbow" /\ params.num_points = 5
    /\ response.data.color_vals[2] = <<127, 63, 191, "0.9">>
    /\ response.data.color_vals[4] = <<63, 127, 191, "0.9">>

-----------------------------------------------------------------------------
(* C8 *)

\* C8: for valid parameters a successful generation returns x, y, z, t and
\* color sequences of length point_count each and frame_count camera eyes.
C8_Lengths ==
    (GenOK /\ ValidParams(params)) =>
        /\ response.keys = DataKeys
        /\ Len(response.data.x_vals) = params.num_points
        /\ Len(response.data.y_vals) = params.num_points
        /\ Len(response.data.z_vals) = params.num_points
        /\ Len(response.data.time_vals) = params.num_points
        /\ Len(response.data.color_vals) = params.num_points
        /\ Len(response.data.frames) = params.animation_frames

C8_Witness ==
    /\ GenOK /\ ValidParams(params)
    /\ params.num_points = 3 /\ params.animation_frames = 2
    /\ Len(response.data.color_vals) = 3 /\ Len(response.data.frames) = 2

-----------------------------------------------------------------------------
(* C9 *)

\* C9: the preset lookup returns classic -> (1000, 1.0, 10.0), dense ->
\* (2000, 1.0, 8.0), spiral -> (1500, 1.2, 12.0), tight -> (800, 0.8, 6.0)
\* with frame_count 100 and color_scheme blue_to_red; any other name is
\* answered 404 Not Found without parameters.
C9_Table ==
    [classic |-> PhyllotaxisParams(1000, <<1, 1>>, <<10, 1>>, 100, "blue_to_red"),
     dense   |-> PhyllotaxisParams(2000, <<1, 1>>, <<8, 1>>, 100, "blue_to_red"),
     spiral  |-> PhyllotaxisParams(1500, <<6, 5>>, <<12, 1>>, 100, "blue_to_red"),
     tight   |-> PhyllotaxisParams(800, <<4, 5>>, <<6, 1>>, 100, "blue_to_red")]

C9_Presets ==
    response.op = "get_preset" =>
        IF preset_name \in DOMAIN C9_Table
          THEN /\ response.status = 200
               /\ response.preset = C9_Table[preset_name]
          ELSE /\ response.status = 404
               /\ response.keys = {"detail"}

C9_Witness ==
    /\ response.op = "get_preset" /\ preset_name = "spiral"
    /\ response.preset.num_points = 1500

-----------------------------------------------------------------------------
(* C10 *)

\* C10: /generate never answers with a partial result: nothing is sent
\* while the generation runs, an error response carries none of the arrays,
\* and a response that carries arrays carries all six, complete.
C10_NoPartialResult ==
    /\ pc # "idle" => response = NoResponse
    /\ response.status # 200 =>
         /\ response.keys \cap DataKeys = {}
         /\ response.data = NoData
    /\ response.keys \cap DataKeys # {} =>
         /\ response.keys = DataKeys
         /\ \A key \in DataKeys \ {"frames"} :
              Len(response.data[key]) = params.num_points
         /\ Len(response.data.frames) = params.animation_frames

\* a generation that failed after all its points had been appended
C10_Witness ==
    /\ response.op = "generate" /\ response.status = 500
    /\ params.num_points >= 2 /\ params.color_scheme \in Schemes
    /\ params.animation_frames < 0
    /\ response.keys = {"detail"}

=============================================================================
